---- MODULE Spec2Model ----
(***************************************************************************)
(* Model of the color-finder ingestion scripts (src/src/script.ts,         *)
(* src/src/extras/addMistral.ts), of the colors table they write to and of *)
(* the nearest-neighbour search function (src/COOKBOOK.md).                *)
(*                                                                         *)
(* Strings are sequences of one-character strings, so that split, replace, *)
(* startsWith and length are computed as JavaScript computes them.        *)
(***************************************************************************)
EXTENDS Integers, Sequences, FiniteSets, TLC

VARIABLES
    env,          \* process.env: the credentials the client modules read
    columns,      \* the columns of public.colors (the deployed schema)
    store,        \* the rows of public.colors, a set of functions over columns
    nextId,       \* the bigserial sequence behind colors.id
    clock,        \* the store's now(), advanced by every write request
    file,         \* the lines of src/colornames.csv (file.split("\n"))
    pc,           \* where the running script is suspended
    maxRows,      \* runFullScript (script.ts): its argument (Omitted when left out)
    colorRows,    \* runFullScript (script.ts): the rows returned by getColorRows
    i,            \* runFullScript (script.ts): the loop index (0-based)
    rawColor,     \* the RawColor of the row in flight
    prepped,      \* the PreppedColor handed to saveColorEntry
    pauses,       \* delays still to be awaited for the current row
    paused,       \* the delays that have elapsed so far, with their row index
    embCalls,     \* row indices for which an OpenAI embedding request was issued
    writeCalls,   \* row indices for which an upsert request was issued
    rowResult,    \* outcome of every row processed so far
    errorLog,     \* number of errors written to the console so far
    infoLog,      \* console.log lines so far
    startRow,     \* updateCycle (addMistral.ts): first content row of the cycle
    stopRow,      \* updateCycle (addMistral.ts): one past the last content row
    inputs,       \* getEmbeddingMistral: the names sent to the provider
    response,     \* getEmbeddingMistral: response.data as returned
    updates,      \* the MistralUpdate[] handed to saveEmbeddingsToDB
    batchCalls,   \* the input lists sent to mistral-embed so far
    batchWrites,  \* the update lists sent to the store so far
    run,          \* runFullScript (addMistral.ts): its arguments
    cycles,       \* the (startRow, stopRow) ranges still to be run
    shadow,       \* a second colors table, written by the one-pass run
    query,        \* search: the column searched, the query_embedding, the plan
    matchCount,   \* search: the match_count argument (Omitted when left out)
    results       \* search: the row lists returned by the last two searches

vars == << env, columns, store, nextId, clock, file, pc, maxRows, colorRows, i, rawColor,
           prepped, pauses, paused, embCalls, writeCalls, rowResult, errorLog, infoLog,
           startRow, stopRow, inputs, response, updates, batchCalls,
           batchWrites, run, cycles, shadow, query, matchCount, results >>

(***************************************************************************)
(* JavaScript values                                                       *)
(***************************************************************************)

\* JavaScript's undefined (an absent field, an omitted argument).
Undefined == << "undefined" >>

\* SQL NULL.
Null == << "null" >>

\* An optional numeric argument that the caller left out.
Omitted == -1

\* Array.prototype.slice(from, to) on a sequence, with 0-based bounds.
Slice(s, from, to) ==
    LET lo == IF from > Len(s) THEN Len(s) ELSE from
        hi == IF to > Len(s) THEN Len(s) ELSE to
    IN  IF hi <= lo THEN << >> ELSE SubSeq(s, lo + 1, hi)

\* Position of the first occurrence of character c in s, 0 when there is none.
RECURSIVE IndexOfFrom(_, _, _)
IndexOfFrom(s, c, k) ==
    IF k > Len(s) THEN 0
    ELSE IF s[k] = c THEN k
    ELSE IndexOfFrom(s, c, k + 1)

IndexOf(s, c) == IndexOfFrom(s, c, 1)

\* String.prototype.split(sep) for a one-character separator: always at
\* least one field; "a,b,".split(",") is ["a", "b", ""].
RECURSIVE Split(_, _)
Split(s, sep) ==
    LET k == IndexOf(s, sep)
    IN  IF k = 0 THEN << s >>
        ELSE << SubSeq(s, 1, k - 1) >> \o Split(SubSeq(s, k + 1, Len(s)), sep)

\* String.prototype.replace(c, "") with a string pattern: only the first
\* occurrence is removed.
ReplaceFirst(s, c) ==
    LET k == IndexOf(s, c)
    IN  IF k = 0 THEN s
        ELSE SubSeq(s, 1, k - 1) \o SubSeq(s, k + 1, Len(s))

\* String.prototype.startsWith(c) for a one-character prefix.
StartsWith(s, c) == Len(s) >= 1 /\ s[1] = c

\* JSON.stringify of a number[]: a string the store parses back into a
\* vector; JSON.stringify(undefined) is undefined.
JSONstringify(v) == IF v = Undefined THEN Undefined ELSE << "json", v >>

\* The store's cast of a serialized vector (text -> vector).
ParseVector(s) == s[2]


(***************************************************************************)
(* Source rows                                                             *)
(***************************************************************************)

\* rowText.split(",") destructured into [name, hex, isGoodName]: a missing
\* field is undefined.
Field(fields, k) == IF k <= Len(fields) THEN fields[k] ELSE Undefined

\* A plausible slip: any non-empty third field counts as the marker.
readColorRowTruthy(rowText) ==
    LET fields == Split(rowText, ",")
    IN  [ name |-> Field(fields, 1),
          hex |-> Field(fields, 2),
          is_good_name |-> (Field(fields, 3) # Undefined /\ Field(fields, 3) # << >>) ]

readColorRow(rowText) ==
    LET fields == Split(rowText, ",")
    IN  [ name |-> Field(fields, 1),
          hex |-> Field(fields, 2),
          is_good_name |-> Field(fields, 3) = << "x" >> ]

\* Upper bound (exclusive) on the length of a name.
NameLimit == 100

\* Length of a hex value with its marker.
HexLength == 7

\* rawColor.hex.length on an undefined hex raises a TypeError.
validRawColorThrows(raw) == raw.hex = Undefined

validRawColor(raw) ==
    LET validName == Len(raw.name) > 0 /\ Len(raw.name) < NameLimit
        validHex == Len(raw.hex) = HexLength /\ StartsWith(raw.hex, "#")
        validIsGoodName == raw.is_good_name \in BOOLEAN
    IN  validName /\ validHex /\ validIsGoodName

\* prepColorEntry's guard: the row is handed on only when validRawColor
\* returned true (a throw inside it propagates like the explicit throw).
PassesValidation(raw) == ~validRawColorThrows(raw) /\ validRawColor(raw)

\* The record prepColorEntry returns once the embedding has arrived.
PreppedColor(raw, embeddingSmall) ==
    [ name |-> raw.name,
      hex |-> ReplaceFirst(raw.hex, "#"),
      is_good_name |-> raw.is_good_name,
      embedding_small |-> JSONstringify(embeddingSmall) ]

\* getColorRows: rows.slice(1) when omitHeader, then slice(0, maxRows) when
\* maxRows is truthy (an omitted maxRows and maxRows = 0 both keep all).
getColorRows(lines, omitHeader, max) ==
    LET contentRows == IF omitHeader THEN Slice(lines, 1, Len(lines)) ELSE lines
    IN  IF max # Omitted /\ max # 0
        THEN Slice(contentRows, 0, max)
        ELSE contentRows

\* getColorNames: the first field of content rows [startRow, stopRow).
getColorNames(lines, omitHeader, start, stop) ==
    LET contentRows == IF omitHeader THEN Slice(lines, 1, Len(lines)) ELSE lines
        adjustedStopRow == IF stop < Len(contentRows) THEN stop ELSE Len(contentRows)
        selectedRows == Slice(contentRows, start, adjustedStopRow)
    IN  IF start >= Len(contentRows) THEN << >>
        ELSE [ k \in 1..Len(selectedRows) |-> Split(selectedRows[k], ",")[1] ]

(***************************************************************************)
(* The colors table                                                        *)
(***************************************************************************)

\* public.colors as first created: one embedding column, embedding_small.
SchemaSmall ==
    { "id", "created_at", "name", "hex", "is_good_name", "embedding_small" }

\* public.colors as the generated types describe it.
SchemaTyped ==
    { "id", "created_at", "name", "hex", "is_good_name",
      "embedding_openai_1536", "embedding_mistral_1024" }

Schemas == { SchemaSmall, SchemaTyped }

VectorColumns ==
    { "embedding_small", "embedding_openai_1536", "embedding_mistral_1024" }

\* Dimensions of the OpenAI and of the Mistral vectors.
DimOpenai == 1536
DimMistral == 1024

\* The declared dimension of a vector column: vector(1536), vector(1024).
ColumnDim(c) == IF c = "embedding_mistral_1024" THEN DimMistral ELSE DimOpenai

\* A vector is << dimension, x, y >>: its declared width and two coordinates.
VecDim(v) == v[1]

\* The columns one payload object names: JSON.stringify drops the keys
\* whose value is undefined.
ObjectColumns(p) ==
    { c \in DOMAIN p : c = "is_good_name" \/ p[c] # Undefined }

\* The columns a request names: those of the object for a single object,
\* the union of the objects' keys for an array.
PayloadColumns(rows, bulk) ==
    IF bulk THEN UNION { DOMAIN rows[k] : k \in 1..Len(rows) }
    ELSE UNION { ObjectColumns(rows[k]) : k \in 1..Len(rows) }

\* The value a payload object gives a named column: a key the object lacks
\* (or holds undefined) is sent as NULL; vectors are cast from their text.
PayloadValue(p, c) ==
    IF c \notin DOMAIN p THEN Null
    ELSE IF c = "is_good_name" THEN p[c]
    ELSE IF p[c] = Undefined THEN Null
    ELSE IF c \in VectorColumns THEN ParseVector(p[c])
    ELSE p[c]

\* Column defaults of public.colors.
ColumnDefault(c, id, now) ==
    IF c = "id" THEN id
    ELSE IF c = "created_at" THEN now
    ELSE IF c = "is_good_name" THEN FALSE
    ELSE Null

\* The statement is rejected as a whole when it names a column the table
\* lacks, gives no name (name is NOT NULL), gives a vector of the wrong
\* width, or proposes the same name twice (ON CONFLICT DO UPDATE cannot
\* affect a row a second time).
UpsertRejected(cols, rows, bulk) ==
    LET named == PayloadColumns(rows, bulk)
    IN  \/ ~(named \subseteq cols)
        \/ \E k \in 1..Len(rows) : PayloadValue(rows[k], "name") = Null
        \/ \E k \in 1..Len(rows) : \E c \in named \cap VectorColumns :
              /\ PayloadValue(rows[k], c) # Null
              /\ VecDim(PayloadValue(rows[k], c)) # ColumnDim(c)
        \/ \E j, k \in 1..Len(rows) :
              j < k /\ PayloadValue(rows[j], "name") = PayloadValue(rows[k], "name")

\* A plausible slip: a plain insert, which adds a row whatever the table
\* holds (the first version of saveColorEntry).
InsertOne(table, cols, named, p, id, now) ==
    table \cup { [ c \in cols |->
                     IF c \in named THEN PayloadValue(p, c)
                     ELSE ColumnDefault(c, id, now) ] }

\* A plausible slip: the row of that name is replaced as a whole (delete,
\* then insert), so the columns the payload leaves out get their defaults.
ReplaceOne(table, cols, named, p, id, now) ==
    { r \in table : r["name"] # PayloadValue(p, "name") } \cup
    { [ c \in cols |->
          IF c \in named THEN PayloadValue(p, c) ELSE ColumnDefault(c, id, now) ] }

\* INSERT ... ON CONFLICT (name) DO UPDATE SET <the named columns>, for one
\* proposed row.
UpsertOne(table, cols, named, p, id, now) ==
    LET hit == { r \in table : r["name"] = PayloadValue(p, "name") }
    IN  IF hit = { }
        THEN table \cup { [ c \in cols |->
                              IF c \in named THEN PayloadValue(p, c)
                              ELSE ColumnDefault(c, id, now) ] }
        ELSE (table \ hit) \cup
             { [ c \in cols |-> IF c \in named THEN PayloadValue(p, c) ELSE r[c] ]
               : r \in hit }

\* The table after an accepted upsert of rows[k..]; every proposed row
\* draws a value from the id sequence.
RECURSIVE UpsertFrom(_, _, _, _, _, _, _)
UpsertFrom(table, cols, named, rows, k, id, now) ==
    IF k > Len(rows) THEN table
    ELSE UpsertFrom(UpsertOne(table, cols, named, rows[k], id, now),
                    cols, named, rows, k + 1, id + 1, now)

\* clientSupabase.from("colors").upsert(rows, { onConflict: "name" }): the
\* table afterwards; available is FALSE when the request fails in transit.
Upsert(table, cols, rows, bulk, id, now, available) ==
    IF ~available \/ UpsertRejected(cols, rows, bulk) THEN table
    ELSE UpsertFrom(table, cols, PayloadColumns(rows, bulk), rows, 1, id, now)

\* The error field of the upsert's result.
UpsertError(cols, rows, bulk, available) ==
    ~available \/ UpsertRejected(cols, rows, bulk)

\* The id sequence after the request.
UpsertNextId(cols, rows, bulk, id, available) ==
    IF UpsertError(cols, rows, bulk, available) THEN id ELSE id + Len(rows)

(***************************************************************************)
(* The embedding providers                                                 *)
(***************************************************************************)

\* Number of occurrences of character c in s.
RECURSIVE CountChar(_, _, _)
CountChar(s, c, k) ==
    IF k > Len(s) THEN 0
    ELSE (IF s[k] = c THEN 1 ELSE 0) + CountChar(s, c, k + 1)

\* text-embedding-3-small as a deterministic provider: the vector depends
\* on the input text alone.
OpenaiEmbed(text) == << DimOpenai, Len(text) % 3, CountChar(text, "e", 1) % 2 >>

\* mistral-embed as a deterministic provider.
MistralEmbed(text) == << DimMistral, Len(text) % 2, CountChar(text, "e", 1) % 3 >>

(***************************************************************************)
(* Sample source files                                                     *)
(***************************************************************************)

Repeat(c, n) == [ k \in 1..n |-> c ]

Header == << "n", "a", "m", "e", ",", "h", "e", "x", ",", "g" >>

Red == << "R", "e", "d" >>
Sky == << "S", "k", "y" >>
HexRed == << "#", "f", "f", "0", "0", "0", "0" >>
HexGreen == << "#", "0", "0", "f", "f", "0", "0" >>

\* One line of the source file.
Line(name, hex, marker) == name \o << "," >> \o hex \o << "," >> \o marker

RowRed == Line(Red, HexRed, << "x" >>)
RowRedGreen == Line(Red, HexGreen, << >>)
RowSky == Line(Sky, HexGreen, << "y" >>)
RowNoName == Line(<< >>, HexRed, << "x" >>)
RowLongName == Line(Repeat("a", NameLimit), HexRed, << >>)
RowLongestName == Line(Repeat("a", NameLimit - 1), HexRed, << >>)
RowNoMarker == Line(Red, << "f", "f", "0", "0", "0", "0" >>, << "x" >>)
RowShortHex == Line(Red, << "#", "f", "f", "0" >>, << >>)
RowMarkerLast == Line(Sky, << "f", "f", "0", "0", "0", "0", "#" >>, << >>)
RowNotHex == Line(Sky, << "#", "z", "z", "z", "z", "z", "z" >>, << >>)
RowTwoMarkers == Line(Sky, << "#", "a", "b", "#", "d", "e", "f" >>, << >>)
RowNameOnly == Red
RowNoThird == Sky \o << "," >> \o HexGreen
RowLongMarker == Line(Sky, HexGreen, << "x", "x" >>)
RowEmpty == << >>

\* Rows that pass validRawColor and rows that do not.
CoreRows == { RowRed, RowRedGreen, RowNoName }

WideRows ==
    { RowRed, RowRedGreen, RowSky, RowNoName, RowLongName, RowLongestName,
      RowNoMarker, RowShortHex, RowMarkerLast, RowNotHex, RowTwoMarkers,
      RowNameOnly, RowNoThird, RowLongMarker, RowEmpty }

\* Bounds on the number of content rows of the sample files.
MaxRowsWide == 2
MaxRowsCore == 3

\* All sequences over S of length at most n.
SeqsUpTo(S, n) == UNION { [ 1..k -> S ] : k \in 0..n }

\* Five content rows, the third of which fails validation.
ThirdRowBad ==
    { << a, b, c, d, e >> :
        a \in { RowRed }, b \in { RowSky, RowRedGreen }, c \in { RowNoName, RowNameOnly },
        d \in { RowSky }, e \in { RowRed, RowRedGreen } }

SampleFiles ==
    { << Header >> \o rows :
        rows \in SeqsUpTo(WideRows, MaxRowsWide) \cup SeqsUpTo(CoreRows, MaxRowsCore)
                 \cup ThirdRowBad }

\* A row that an earlier run left in the table.
StoredRow(cols, name, hex, good) ==
    [ c \in cols |->
        IF c = "id" THEN 1
        ELSE IF c = "created_at" THEN 0
        ELSE IF c = "name" THEN name
        ELSE IF c = "hex" THEN hex
        ELSE IF c = "is_good_name" THEN good
        ELSE IF c = "embedding_mistral_1024" THEN Null
        ELSE << DimOpenai, 2, 1 >> ]

InitialStores(cols) ==
    { { }, { StoredRow(cols, Red, << "1", "2", "3", "4", "5", "6" >>, FALSE) } }

(***************************************************************************)
(* State                                                                   *)
(***************************************************************************)

\* A process environment that sets every credential.
ConfiguredEnv ==
    [ OPENAI_API_KEY |-> << "s", "k" >>,
      SUPABASE_URL |-> << "h", "t", "t", "p", "s" >>,
      SUPABASE_SERVICE_ROLE_KEY |-> << "e", "y" >> ]

\* The locals and the logs of the scripts before their first step:
\* nothing read, nothing in flight, nothing logged.
InitLocals ==
    /\ maxRows = Omitted
    /\ colorRows = << >>
    /\ i = 0
    /\ rawColor = Undefined
    /\ prepped = Undefined
    /\ pauses = << >>
    /\ paused = << >>
    /\ embCalls = << >>
    /\ writeCalls = << >>
    /\ rowResult = << >>
    /\ errorLog = 0
    /\ infoLog = << >>
    /\ startRow = 0
    /\ stopRow = 0
    /\ inputs = << >>
    /\ response = Undefined
    /\ updates = << >>
    /\ batchCalls = << >>
    /\ batchWrites = << >>
    /\ results = << >>

\* The arguments of a runFullScript (addMistral.ts) that was not called.
NoRun == [ stepSize |-> 0, startRow |-> 0 ]

\* Both scripts once their client modules have loaded.
InitScript ==
    /\ env = ConfiguredEnv
    /\ InitLocals
    /\ run = NoRun

InitStore ==
    /\ columns \in Schemas
    /\ store \in InitialStores(columns)
    /\ shadow = store
    /\ nextId = 2
    /\ clock = 1

Init ==
    /\ InitStore
    /\ file \in SampleFiles
    /\ InitScript
    /\ pc = "idle"
    /\ cycles = << >>
    /\ query = Undefined
    /\ matchCount = Omitted

(***************************************************************************)
(* script.ts: runFullScript, one row at a time                             *)
(***************************************************************************)

\* The pauses of the loop body, in milliseconds, and the period of the
\* longer one.
PauseEvery == 10
LongPause == 500
ShortPause == 100

singleVars == << colorRows, i, rawColor, prepped, pauses, paused, embCalls, writeCalls,
                 rowResult >>
batchVars == << startRow, stopRow, inputs, response, updates, batchCalls,
                batchWrites, cycles, shadow >>
searchVars == << query, matchCount, results >>
storeVars == << store, nextId, clock >>

\* runFullScript(maxRows) up to the loop: getColorRows and the first log line.
RunStart(max) ==
    /\ pc = "idle"
    /\ maxRows' = max
    /\ colorRows' = getColorRows(file, TRUE, max)
    /\ i' = 0
    /\ infoLog' = Append(infoLog, "processing")
    /\ pc' = "loop"
    /\ UNCHANGED << env, run, columns, file, storeVars, rawColor, prepped, pauses,
                    paused, embCalls,
                    writeCalls, rowResult, errorLog, batchVars, searchVars >>

\* The loop condition fails: the final log line.
RunCompletes ==
    /\ pc = "loop"
    /\ i >= Len(colorRows)
    /\ infoLog' = Append(infoLog, "completed")
    /\ pc' = "done"
    /\ UNCHANGED << env, maxRows, run, columns, file, storeVars, singleVars,
                    errorLog, batchVars,
                    searchVars >>

\* A plausible slip: no try/catch around the loop body, so the first
\* invalid row ends the run.
RowRejectedAborts ==
    /\ pc = "loop"
    /\ i < Len(colorRows)
    /\ ~PassesValidation(readColorRow(colorRows[i + 1]))
    /\ errorLog' = errorLog + 1
    /\ rowResult' = Append(rowResult, "invalid")
    /\ pc' = "done"
    /\ UNCHANGED << env, maxRows, run, columns, file, storeVars, i, colorRows,
                    rawColor, prepped,
                    pauses, paused, embCalls, writeCalls, infoLog, batchVars, searchVars >>

\* readColorRow, then prepColorEntry throws on an invalid row (or
\* validRawColor itself throws): the catch block logs and the loop goes on.
RowRejected ==
    /\ pc = "loop"
    /\ i < Len(colorRows)
    /\ ~PassesValidation(readColorRow(colorRows[i + 1]))
    /\ errorLog' = errorLog + 1
    /\ rowResult' = Append(rowResult, "invalid")
    /\ i' = i + 1
    /\ UNCHANGED << env, maxRows, run, columns, file, storeVars, pc, colorRows,
                    rawColor, prepped,
                    pauses, paused, embCalls, writeCalls, infoLog, batchVars, searchVars >>

\* A plausible slip: the row's work is started and not awaited (a forEach
\* with an async callback), so the loop moves on with the request in flight.
RowAcceptedNotAwaited ==
    /\ pc = "loop"
    /\ i < Len(colorRows)
    /\ PassesValidation(readColorRow(colorRows[i + 1]))
    /\ rawColor' = readColorRow(colorRows[i + 1])
    /\ embCalls' = Append(embCalls, i)
    /\ i' = i + 1
    /\ UNCHANGED << env, maxRows, run, columns, file, storeVars, pc, colorRows,
                    prepped, pauses,
                    paused, writeCalls, rowResult, errorLog, infoLog, batchVars,
                    searchVars >>

\* readColorRow, then prepColorEntry passes validation and awaits getEmbedding.
RowAccepted ==
    /\ pc = "loop"
    /\ i < Len(colorRows)
    /\ PassesValidation(readColorRow(colorRows[i + 1]))
    /\ rawColor' = readColorRow(colorRows[i + 1])
    /\ embCalls' = Append(embCalls, i)
    /\ pc' = "embedding"
    /\ UNCHANGED << env, maxRows, run, columns, file, storeVars, colorRows, i,
                    prepped, pauses, paused,
                    writeCalls, rowResult, errorLog, infoLog, batchVars, searchVars >>

\* getEmbedding resolves: prepColorEntry returns and saveColorEntry awaits
\* the upsert.
EmbeddingArrives ==
    /\ pc = "embedding"
    /\ prepped' = PreppedColor(rawColor, OpenaiEmbed(rawColor.name))
    /\ writeCalls' = Append(writeCalls, i)
    /\ pc' = "saving"
    /\ UNCHANGED << env, maxRows, run, columns, file, storeVars, colorRows, i,
                    rawColor, pauses, paused,
                    embCalls, rowResult, errorLog, infoLog, batchVars, searchVars >>

\* getEmbedding rejects (or the response holds no data[0]): the catch block.
EmbeddingFails ==
    /\ pc = "embedding"
    /\ errorLog' = errorLog + 1
    /\ rowResult' = Append(rowResult, "embedding")
    /\ i' = i + 1
    /\ pc' = "loop"
    /\ UNCHANGED << env, maxRows, run, columns, file, storeVars, colorRows, rawColor, prepped,
                    pauses, paused,
                    embCalls, writeCalls, infoLog, batchVars, searchVars >>

\* The pauses that follow saveColorEntry for loop index k.
PausesAfter(k) ==
    IF (k + 1) % PauseEvery = 0 THEN << LongPause, ShortPause >> ELSE << ShortPause >>

\* A plausible slip: a write that fails is sent again at once, until the
\* store accepts it.
SaveReturnsRetries(available) ==
    /\ pc = "saving"
    /\ store' = Upsert(store, columns, << prepped >>, FALSE, nextId, clock, available)
    /\ nextId' = UpsertNextId(columns, << prepped >>, FALSE, nextId, available)
    /\ clock' = clock + 1
    /\ IF UpsertError(columns, << prepped >>, FALSE, available)
       THEN /\ errorLog' = errorLog + 1
            /\ writeCalls' = Append(writeCalls, i)
            /\ pc' = "saving"
            /\ UNCHANGED << rowResult, infoLog, pauses >>
       ELSE /\ errorLog' = errorLog
            /\ writeCalls' = writeCalls
            /\ rowResult' = Append(rowResult, "saved")
            /\ infoLog' = IF (i + 1) % PauseEvery = 0
                          THEN infoLog \o << "saved", "processed" >>
                          ELSE Append(infoLog, "saved")
            /\ pauses' = PausesAfter(i)
            /\ pc' = "delay"
    /\ UNCHANGED << env, maxRows, run, columns, file, colorRows, i, rawColor, prepped, paused,
                    embCalls, batchVars, searchVars >>

\* The upsert resolves: saveColorEntry logs the error or the saved name,
\* then the loop body logs every tenth entry and starts its pauses.
SaveReturns(available) ==
    /\ pc = "saving"
    /\ store' = Upsert(store, columns, << prepped >>, FALSE, nextId, clock, available)
    /\ nextId' = UpsertNextId(columns, << prepped >>, FALSE, nextId, available)
    /\ clock' = clock + 1
    /\ IF UpsertError(columns, << prepped >>, FALSE, available)
       THEN /\ errorLog' = errorLog + 1
            /\ rowResult' = Append(rowResult, "write")
            /\ infoLog' = IF (i + 1) % PauseEvery = 0
                          THEN Append(infoLog, "processed")
                          ELSE infoLog
       ELSE /\ errorLog' = errorLog
            /\ rowResult' = Append(rowResult, "saved")
            /\ infoLog' = IF (i + 1) % PauseEvery = 0
                          THEN infoLog \o << "saved", "processed" >>
                          ELSE Append(infoLog, "saved")
    /\ pauses' = PausesAfter(i)
    /\ pc' = "delay"
    /\ UNCHANGED << env, maxRows, run, columns, file, colorRows, i, rawColor, prepped, paused,
                    embCalls, writeCalls, batchVars, searchVars >>

\* One awaited delay elapses; after the last one the loop index advances.
DelayElapses ==
    /\ pc = "delay"
    /\ pauses' = Tail(pauses)
    /\ paused' = Append(paused, [ row |-> i, ms |-> Head(pauses) ])
    /\ IF Len(pauses) = 1
       THEN i' = i + 1 /\ pc' = "loop"
       ELSE i' = i /\ pc' = "delay"
    /\ UNCHANGED << env, maxRows, run, columns, file, storeVars, colorRows, rawColor, prepped,
                    embCalls, writeCalls, rowResult, errorLog, infoLog, batchVars,
                    searchVars >>

Next ==
    \/ RunStart(Omitted)
    \/ RunCompletes
    \/ RowRejected
    \/ RowAccepted
    \/ EmbeddingArrives
    \/ EmbeddingFails
    \/ \E available \in BOOLEAN : SaveReturns(available)
    \/ DelayElapses

Spec == Init /\ [][Next]_vars

(***************************************************************************)
(* addMistral.ts: getEmbeddingMistral, saveEmbeddingsToDB, updateCycle     *)
(***************************************************************************)

\* The filter of getEmbeddingMistral: an entry of kind "embedding" that
\* carries an index.
ValidOutput(output) == output.object = "embedding" /\ output.index # Omitted

\* inputs[index] for a 0-based index: undefined outside the array.
InputAt(names, index) ==
    IF index >= 0 /\ index < Len(names) THEN names[index + 1] ELSE Undefined

\* A plausible slip: the k-th valid entry is paired with the k-th input.
getEmbeddingMistralByPosition(names, resp) ==
    LET validOutputs == SelectSeq(resp.data, ValidOutput)
    IN  IF ~resp.hasData \/ Len(resp.data) = 0 THEN << >>
        ELSE [ k \in 1..Len(validOutputs) |->
                 [ name |-> InputAt(names, k - 1),
                   embedding_mistral_1024 |-> JSONstringify(validOutputs[k].embedding) ] ]

\* A plausible slip: the updates are collected in reverse.
getEmbeddingMistralReversed(names, resp) ==
    LET validOutputs == SelectSeq(resp.data, ValidOutput)
        n == Len(validOutputs)
    IN  IF ~resp.hasData \/ Len(resp.data) = 0 THEN << >>
        ELSE [ k \in 1..n |->
                 [ name |-> InputAt(names, validOutputs[n + 1 - k].index),
                   embedding_mistral_1024 |->
                       JSONstringify(validOutputs[n + 1 - k].embedding) ] ]

\* getEmbeddingMistral once the provider has answered with resp: no
\* updates when response.data is missing or empty, otherwise one update per
\* valid entry, in the order of the response.
getEmbeddingMistral(names, resp) ==
    LET validOutputs == SelectSeq(resp.data, ValidOutput)
    IN  IF ~resp.hasData \/ Len(resp.data) = 0 THEN << >>
        ELSE [ k \in 1..Len(validOutputs) |->
                 [ name |-> InputAt(names, validOutputs[k].index),
                   embedding_mistral_1024 |-> JSONstringify(validOutputs[k].embedding) ] ]

\* What a provider that embeds names[index] can put in one entry.
EntryEmbedding(names, index) ==
    IF index >= 0 /\ index < Len(names) THEN MistralEmbed(names[index + 1])
    ELSE << DimMistral, 2, 2 >>

\* The entries a response to names may hold: an embedding for an index
\* inside the inputs, past them or absent; an entry of another kind; an
\* entry without a vector.
ProviderEntries(names) ==
    { [ object |-> "embedding", index |-> x, embedding |-> EntryEmbedding(names, x) ] :
        x \in (0..Len(names)) \cup { Omitted } } \cup
    { [ object |-> "list", index |-> 0, embedding |-> EntryEmbedding(names, 0) ],
      [ object |-> "embedding", index |-> 0, embedding |-> Undefined ] }

\* Bound on the number of entries of a response.
MaxEntries == 2

\* The responses of an arbitrary provider.
ProviderResponses(names) ==
    { [ hasData |-> FALSE, data |-> << >> ] } \cup
    { [ hasData |-> TRUE, data |-> d ] :
        d \in SeqsUpTo(ProviderEntries(names), MaxEntries) }

\* The response of a provider that answers every input, in input order.
FaithfulResponse(names) ==
    [ hasData |-> TRUE,
      data |-> [ k \in 1..Len(names) |->
                   [ object |-> "embedding", index |-> k - 1,
                     embedding |-> MistralEmbed(names[k]) ] ] ]

\* A plausible slip: no early return, so a request is made for an empty
\* list of names too.
CycleStartNoEarlyReturn ==
    /\ pc = "idle"
    /\ cycles # << >>
    /\ startRow' = Head(cycles)[1]
    /\ stopRow' = Head(cycles)[2]
    /\ inputs' = getColorNames(file, TRUE, Head(cycles)[1], Head(cycles)[2])
    /\ cycles' = Tail(cycles)
    /\ pc' = "mistral"
    /\ batchCalls' = Append(batchCalls, inputs')
    /\ UNCHANGED << env, maxRows, run, columns, file, storeVars, singleVars, errorLog, infoLog,
                    response, updates, batchWrites, shadow, searchVars >>

\* updateCycle(startRow, stopRow) up to its first await: getColorNames,
\* then either the early return or the request to mistral-embed.
CycleStart ==
    /\ pc = "idle"
    /\ cycles # << >>
    /\ startRow' = Head(cycles)[1]
    /\ stopRow' = Head(cycles)[2]
    /\ inputs' = getColorNames(file, TRUE, Head(cycles)[1], Head(cycles)[2])
    /\ cycles' = Tail(cycles)
    /\ IF Len(inputs') = 0
       THEN pc' = "idle" /\ batchCalls' = batchCalls
       ELSE pc' = "mistral" /\ batchCalls' = Append(batchCalls, inputs')
    /\ UNCHANGED << env, maxRows, run, columns, file, storeVars, singleVars, errorLog, infoLog,
                    response, updates, batchWrites, shadow, searchVars >>

\* The provider answers: getEmbeddingMistral returns its updates and
\* saveEmbeddingsToDB awaits the upsert.
MistralResponds(resp) ==
    /\ pc = "mistral"
    /\ response' = resp
    /\ updates' = getEmbeddingMistral(inputs, resp)
    /\ errorLog' = IF ~resp.hasData \/ Len(resp.data) = 0 THEN errorLog + 1
                   ELSE errorLog
    /\ batchWrites' = Append(batchWrites, updates')
    /\ pc' = "upserting"
    /\ UNCHANGED << env, maxRows, run, columns, file, storeVars, singleVars, infoLog, startRow,
                    stopRow, inputs, batchCalls, cycles, shadow, searchVars >>

\* The request rejects: nothing in updateCycle or its caller catches it.
MistralFails ==
    /\ pc = "mistral"
    /\ pc' = "crashed"
    /\ UNCHANGED << env, maxRows, run, columns, file, storeVars, singleVars, errorLog, infoLog,
                    batchVars, searchVars >>

\* The upsert resolves: saveEmbeddingsToDB logs an error if there is one,
\* updateCycle logs the range and returns.
BatchSaveReturns(available) ==
    /\ pc = "upserting"
    /\ store' = Upsert(store, columns, updates, TRUE, nextId, clock, available)
    /\ nextId' = UpsertNextId(columns, updates, TRUE, nextId, available)
    /\ clock' = clock + 1
    /\ errorLog' = IF UpsertError(columns, updates, TRUE, available)
                   THEN errorLog + 1 ELSE errorLog
    /\ infoLog' = Append(infoLog, "updated")
    /\ pc' = "idle"
    /\ UNCHANGED << env, maxRows, run, columns, file, singleVars, batchVars, searchVars >>

\* Bound on the row offsets of the sample cycles.
MaxOffset == 2

Ranges == { << a, b >> : a \in 0..MaxOffset, b \in 0..MaxOffset }

\* Bound on the number of content rows of the files of the batch runs.
MaxBatchRows == 2

BatchFiles ==
    { << Header >> \o rows : rows \in SeqsUpTo({ RowRed, RowNoName }, MaxBatchRows) }

InitBatch ==
    /\ columns = SchemaTyped
    /\ store \in InitialStores(columns)
    /\ shadow = store
    /\ nextId = 2
    /\ clock = 1
    /\ file \in BatchFiles
    /\ InitScript
    /\ pc = "idle"
    /\ cycles \in { << r >> : r \in Ranges }
    /\ query = Undefined
    /\ matchCount = Omitted

NextBatch ==
    \/ CycleStart
    \/ \E resp \in ProviderResponses(inputs) : MistralResponds(resp)
    \/ MistralFails
    \/ \E available \in BOOLEAN : BatchSaveReturns(available)

SpecBatch == InitBatch /\ [][NextBatch]_vars

(***************************************************************************)
(* Properties of the single-row pipeline                                   *)
(***************************************************************************)

Last(s) == s[Len(s)]

\* The rows of the table that carry a given name.
RowsNamed(table, name) == { r \in table : r["name"] = name }

\* The row just written sits alone under its name, with the values sent.
HoldsPrepped(table, p) ==
    /\ Cardinality(RowsNamed(table, p.name)) = 1
    /\ \A r \in RowsNamed(table, p.name) :
          /\ r["hex"] = p.hex
          /\ r["is_good_name"] = p.is_good_name
          /\ r["embedding_small"] = ParseVector(p.embedding_small)

\* C1: once saveColorEntry's upsert of a record has been accepted, the
\* table holds exactly one row with that name and it carries the hex,
\* is_good_name and embedding of that record (the later write wins); and
\* no two rows of the table ever share a name.
C1_UpsertLastWriteWins ==
    /\ \A r1, r2 \in store : r1["name"] = r2["name"] => r1 = r2
    /\ (pc = "delay" /\ Last(rowResult) = "saved") => HoldsPrepped(store, prepped)

\* C1 witness: two rows with the same name and different hex values were
\* both saved, and the table holds one row, with the second hex.
C1_Witness ==
    /\ pc = "delay"
    /\ rowResult = << "saved", "saved" >>
    /\ colorRows = << RowRed, RowRedGreen >>
    /\ Cardinality(store) = 1
    /\ \A r \in store : r["hex"] = << "0", "0", "f", "f", "0", "0" >>
                        /\ r["is_good_name"] = FALSE

HexDigits ==
    { "0", "1", "2", "3", "4", "5", "6", "7", "8", "9",
      "a", "b", "c", "d", "e", "f", "A", "B", "C", "D", "E", "F" }

\* '#' followed by exactly six hexadecimal digits.
IsHexColor(h) ==
    /\ h # Undefined
    /\ Len(h) = HexLength
    /\ h[1] = "#"
    /\ \A k \in 2..HexLength : h[k] \in HexDigits

\* A name of length 1 to 99 and a well-formed hex value.
WellFormed(raw) ==
    /\ Len(raw.name) > 0
    /\ Len(raw.name) < NameLimit
    /\ IsHexColor(raw.hex)

\* C2: no store write is issued for a row whose name is empty or has 100
\* or more characters, or whose hex is not '#' followed by six hexadecimal
\* digits.
C2_MalformedNeverWritten ==
    \A k \in 1..Len(writeCalls) :
        WellFormed(readColorRow(colorRows[writeCalls[k] + 1]))

\* Six hexadecimal digits and nothing else (so no '#').
IsSixHexDigits(h) ==
    /\ Len(h) = HexLength - 1
    /\ \A k \in 1..Len(h) : h[k] \in HexDigits

\* C16: every hex value the single-row pipeline has written, for a row
\* that passed validRawColor, consists of exactly six hexadecimal digits
\* and holds no '#'.
C16_StoredHexSixDigits ==
    (pc = "delay" /\ Last(rowResult) = "saved") =>
        \A r \in RowsNamed(store, prepped.name) : IsSixHexDigits(r["hex"])

\* The third comma-separated field of the row in flight.
ThirdField == Field(Split(colorRows[i + 1], ","), 3)

\* C17: the is_good_name of the row in flight is true exactly when the
\* third field of the row is non-empty, false when it is empty or absent.
C17_NonEmptyMarker ==
    pc \in { "embedding", "saving", "delay" } =>
        (rawColor.is_good_name <=> (ThirdField # Undefined /\ ThirdField # << >>))

\* C17 as amended: the is_good_name of the row in flight is true exactly
\* when the third field of the row is the one character x, and false for
\* every other field, empty, absent or longer.
C17_MarkerIsX ==
    pc \in { "embedding", "saving", "delay" } =>
        (rawColor.is_good_name <=> ThirdField = << "x" >>)

\* C17 witness: a row whose third field is non-empty and is not x is in
\* flight, with is_good_name false.
C17_Witness ==
    /\ pc = "embedding"
    /\ ThirdField = << "y" >>
    /\ rawColor.is_good_name = FALSE

\* The number of rows processed so far whose outcome is one of a set.
Outcomes(set) == Cardinality({ k \in 1..Len(rowResult) : rowResult[k] \in set })

\* The embedding requests and the write requests that are in flight.
EmbeddingsInFlight == Len(embCalls) - Len(writeCalls) - Outcomes({ "embedding" })
WritesInFlight == Len(writeCalls) - Outcomes({ "write", "saved" })

StrictlyIncreasing(s) == \A j, k \in 1..Len(s) : j < k => s[j] < s[k]

\* C19: at most one embedding request and at most one write request are
\* in flight; a request for a row is in flight only when every earlier
\* row has its outcome; requests are issued in source-row order.
C19_OneRowAtATime ==
    /\ EmbeddingsInFlight = (IF pc = "embedding" THEN 1 ELSE 0)
    /\ WritesInFlight = (IF pc = "saving" THEN 1 ELSE 0)
    /\ pc \in { "embedding", "saving" } => Len(rowResult) = i /\ Last(embCalls) = i
    /\ pc = "saving" => Last(writeCalls) = i
    /\ \A k \in 1..Len(embCalls) : embCalls[k] <= Len(rowResult)
    /\ StrictlyIncreasing(embCalls)
    /\ StrictlyIncreasing(writeCalls)

\* C19 witness: the rows at indices 0 and 1 have been written and the
\* embedding request of the row at index 2 is in flight.
C19_Witness ==
    /\ pc = "embedding"
    /\ i = 2
    /\ writeCalls = << 0, 1 >>
    /\ embCalls = << 0, 1, 2 >>
    /\ Len(rowResult) = 2

\* The number of rows processed so far that did not end saved.
FailedRows == Cardinality({ k \in 1..Len(rowResult) : rowResult[k] # "saved" })

\* The last row at or before position k that was saved under the name of
\* row k.
LastSavedAs(k) ==
    CHOOSE j \in 1..Len(rowResult) :
        /\ rowResult[j] = "saved"
        /\ readColorRow(colorRows[j]).name = readColorRow(colorRows[k]).name
        /\ \A m \in 1..Len(rowResult) :
              (rowResult[m] = "saved"
               /\ readColorRow(colorRows[m]).name = readColorRow(colorRows[k]).name)
              => m <= j

\* C4: when runFullScript has completed, every row was attempted, a row is
\* counted invalid exactly when it fails validation, one error was logged
\* per failing row, and every row that did not fail is in the table under
\* its name, with the hex of the last saved row of that name.
C4_ContinueOnError ==
    pc = "done" =>
        /\ Len(rowResult) = Len(colorRows)
        /\ errorLog = FailedRows
        /\ \A k \in 1..Len(rowResult) :
              /\ (rowResult[k] = "invalid")
                    <=> ~PassesValidation(readColorRow(colorRows[k]))
              /\ rowResult[k] = "saved" =>
                    \E r \in store :
                        /\ r["name"] = readColorRow(colorRows[k]).name
                        /\ r["hex"] = ReplaceFirst(
                               readColorRow(colorRows[LastSavedAs(k)]).hex, "#")

\* C4 witness: five rows, the third invalid, the other four saved, one
\* error logged.
C4_Witness ==
    /\ pc = "done"
    /\ Len(colorRows) = 5
    /\ rowResult = << "saved", "saved", "invalid", "saved", "saved" >>
    /\ errorLog = 1
    /\ \E r \in store : r["name"] = Red
    /\ \E r \in store : r["name"] = Sky

(***************************************************************************)
(* Properties of the batch pipeline                                        *)
(***************************************************************************)

\* The entries of the response that getEmbeddingMistral keeps.
KeptEntries == SelectSeq(response.data, ValidOutput)

\* Entry e carries an index inside the inputs.
InRange(e) == e.index >= 0 /\ e.index < Len(inputs)

\* C3: whatever order (and subset) of entries the provider returns, the
\* update made from the entry that carries index i has the name inputs[i],
\* and the vector it carries is the vector of that very name, never that
\* of the name at the entry's position in the response.
C3_BatchCorrelation ==
    pc = "upserting" =>
        /\ Len(updates) = Len(KeptEntries)
        /\ \A k \in 1..Len(updates) :
              InRange(KeptEntries[k]) =>
                 /\ updates[k].name = inputs[KeptEntries[k].index + 1]
                 /\ KeptEntries[k].embedding # Undefined =>
                       ParseVector(updates[k].embedding_mistral_1024)
                           = MistralEmbed(updates[k].name)

\* C3 witness: the provider answered two different names in swapped order
\* and both updates were built.
C3_Witness ==
    /\ pc = "upserting"
    /\ Len(inputs) = 2
    /\ inputs[1] # inputs[2]
    /\ Len(response.data) = 2
    /\ ValidOutput(response.data[1]) /\ response.data[1].index = 1
    /\ ValidOutput(response.data[2]) /\ response.data[2].index = 0
    /\ response.data[1].embedding # Undefined
    /\ response.data[2].embedding # Undefined
    /\ Len(updates) = 2

\* The name is one of the inputs of the request.
IsInput(name) == \E p \in 1..Len(inputs) : inputs[p] = name

\* The first position of a name among the inputs.
FirstPosition(name) ==
    CHOOSE p \in 1..Len(inputs) :
        inputs[p] = name /\ \A q \in 1..Len(inputs) : inputs[q] = name => p <= q

\* C10: the updates are in input order, whatever order the provider
\* returned its entries in.
C10_InputOrder ==
    pc = "upserting" =>
        \A j, k \in 1..Len(updates) :
            (j < k /\ IsInput(updates[j].name) /\ IsInput(updates[k].name))
                => FirstPosition(updates[j].name) <= FirstPosition(updates[k].name)

\* C10 as amended: the updates are in the order of the response: the k-th
\* update is named after the k-th entry that is of kind "embedding" and
\* carries an index; so the list is in input order when those entries
\* come in increasing index order.
C10_ResponseOrder ==
    pc = "upserting" =>
        [ k \in 1..Len(updates) |-> updates[k].name ]
            = [ k \in 1..Len(KeptEntries) |-> InputAt(inputs, KeptEntries[k].index) ]

\* C10 witness: the entries came back in decreasing index order and the
\* updates follow the response, not the inputs.
C10_Witness ==
    /\ pc = "upserting"
    /\ Len(inputs) = 2
    /\ Len(updates) = 2
    /\ KeptEntries[1].index = 1
    /\ KeptEntries[2].index = 0
    /\ updates[1].name = inputs[2]
    /\ updates[2].name = inputs[1]
    /\ inputs[1] # inputs[2]

\* The content rows of the source file.
ContentRows == Slice(file, 1, Len(file))

\* C8: no embedding request and no store write is issued for a row that
\* has not passed validation, in the single-row mode (embCalls, writeCalls)
\* and in the batch mode (the names sent to mistral-embed and then to the
\* store come from content rows startRow, startRow + 1, ...).
C8_ValidatedBeforeExternalCalls ==
    /\ \A k \in 1..Len(embCalls) :
          PassesValidation(readColorRow(colorRows[embCalls[k] + 1]))
    /\ \A k \in 1..Len(writeCalls) :
          PassesValidation(readColorRow(colorRows[writeCalls[k] + 1]))
    /\ pc \in { "mistral", "upserting" } =>
          \A k \in 1..Len(inputs) :
              PassesValidation(readColorRow(ContentRows[startRow + k]))

\* C9: every row of the table has a non-empty name and a hex value.
C9_NoPartialRows ==
    \A r \in store : r["name"] # << >> /\ r["hex"] # Null

\* The response holds a usable vector for the input at position p: an
\* entry of kind "embedding" that carries the index of p and an embedding.
HasUsableVector(p) ==
    \E k \in 1..Len(response.data) :
        /\ ValidOutput(response.data[k])
        /\ response.data[k].index = p - 1
        /\ response.data[k].embedding # Undefined

\* What getEmbeddingMistral hands its caller marks the input at position p
\* as failed: an update under that name that carries no vector.
ReportedFailed(p) ==
    \E k \in 1..Len(updates) :
        /\ updates[k].name = inputs[p]
        /\ updates[k].embedding_mistral_1024 = Undefined

\* C11: when getEmbeddingMistral has returned from a response that holds
\* data, every input for which that response holds no usable vector (entry
\* missing, of another kind, without index or without embedding) is
\* reported to the caller as failed, and the caller does not get the empty
\* list that a response without data (the failure of the whole request) is
\* answered with.
C11_PerItemFailureReported ==
    (pc = "upserting" /\ response.hasData /\ Len(response.data) > 0) =>
        /\ \A p \in 1..Len(inputs) : ~HasUsableVector(p) => ReportedFailed(p)
        /\ updates # << >>

(***************************************************************************)
(* Range resumption: two chained cycles against one cycle                  *)
(***************************************************************************)

\* The table after updateCycle(a, b) when the provider answers every input
\* in order and the request to the store is not lost.
UpdateCycleTable(table, lines, cols, a, b, id, now) ==
    LET names == getColorNames(lines, TRUE, a, b)
        ups == getEmbeddingMistral(names, FaithfulResponse(names))
    IN  IF Len(names) = 0 THEN table
        ELSE Upsert(table, cols, ups, TRUE, id, now, TRUE)

\* The one-pass run updateCycle(a, c), on the second table.
OnePass ==
    /\ pc = "fresh"
    /\ shadow' = UpdateCycleTable(shadow, file, columns, cycles[1][1], cycles[2][2],
                                  nextId, clock)
    /\ pc' = "idle"
    /\ UNCHANGED << env, maxRows, run, columns, file, storeVars, singleVars, errorLog, infoLog,
                    startRow, stopRow, inputs, response, updates, batchCalls,
                    batchWrites, cycles, searchVars >>

\* The answer of the deterministic provider to the request in flight.
MistralRespondsFaithfully == MistralResponds(FaithfulResponse(inputs))

\* The store answers the request in flight.
BatchSaveArrives == BatchSaveReturns(TRUE)

RowSkyRed == Line(Sky, HexRed, << >>)

ResumeFiles ==
    { << Header >> \o rows :
        rows \in SeqsUpTo({ RowRed, RowRedGreen, RowSkyRed }, MaxBatchRows + 1) }

InitResume ==
    /\ InitStore
    /\ file \in ResumeFiles
    /\ InitScript
    /\ pc = "fresh"
    /\ cycles \in { << << a, b >>, << b, c >> >> :
                      a \in 0..MaxOffset, b \in 0..MaxOffset, c \in 0..MaxOffset }
    /\ cycles[1][1] <= cycles[1][2]
    /\ cycles[2][1] <= cycles[2][2]
    /\ query = Undefined
    /\ matchCount = Omitted

NextResume ==
    \/ OnePass
    \/ CycleStart
    \/ MistralRespondsFaithfully
    \/ BatchSaveArrives

SpecResume == InitResume /\ [][NextResume]_vars

\* What a table holds, leaving out the columns the store fills in itself.
Content(table) ==
    { [ c \in (DOMAIN r) \ { "id", "created_at" } |-> r[c] ] : r \in table }

\* C5: once updateCycle(a, b) and updateCycle(b, c) have run, the table
\* holds what a single updateCycle(a, c) leaves in it.
C5_RangeResumption ==
    (pc = "idle" /\ cycles = << >>) => Content(store) = Content(shadow)

(***************************************************************************)
(* The search functions                                                    *)
(***************************************************************************)

\* match_count int default 10
DefaultMatchCount == 10

\* A plausible slip: the default is off by one.
SearchLimitOffByOne(k) == IF k = Omitted THEN DefaultMatchCount + 1 ELSE k

\* The LIMIT of the inner query.
SearchLimit(k) == IF k = Omitted THEN DefaultMatchCount ELSE k

\* a <#> b: the negative inner product.
Distance(v, q) == 0 - (v[2] * q[2] + v[3] * q[3])

\* The rows that may come next under ORDER BY <column> <#> query: those at
\* the least distance; rows without a vector sort last (NULLS LAST). Rows
\* at the same distance come in no specified order.
Nearest(rows, col, q) ==
    LET withVector == { r \in rows : r[col] # Null }
    IN  IF withVector = { } THEN rows
        ELSE { r \in withVector :
                 \A t \in withVector : Distance(r[col], q) <= Distance(t[col], q) }

\* The row lists SELECT * FROM colors ORDER BY <column> <#> query LIMIT n
\* can produce.
RECURSIVE OrderedLimited(_, _, _, _)
OrderedLimited(rows, col, q, n) ==
    IF n <= 0 \/ rows = { } THEN { << >> }
    ELSE UNION { { << r >> \o rest : rest \in OrderedLimited(rows \ { r }, col, q, n - 1) }
                 : r \in Nearest(rows, col, q) }

\* The outer SELECT: name, hex, is_good_name and the distance.
Projected(r, col, q) ==
    [ name |-> r["name"], hex |-> r["hex"], is_good_name |-> r["is_good_name"],
      distance |-> IF r[col] = Null THEN Null ELSE Distance(r[col], q) ]

\* Bound on the number of indexed rows an index scan may fail to visit.
MaxMissed == 1

\* The rows the inner query visits under a plan. A sequential scan visits
\* every row. A scan of the ivfflat index (SET ivfflat.probes = 15) visits
\* only rows that have a vector, and only those in the lists it probes: it
\* misses the others.
Scanned(rows, col, plan) ==
    IF plan.scan = "seq" THEN rows
    ELSE { r \in rows : r[col] # Null } \ plan.missed

\* The plans the planner may choose for a table and a column.
Plans(rows, col) ==
    { [ scan |-> "seq", missed |-> { } ] } \cup
    { [ scan |-> "index", missed |-> m ] :
        m \in { x \in SUBSET { r \in rows : r[col] # Null } :
                  Cardinality(x) <= MaxMissed } }

\* search_embedding_<column>(query_embedding, match_count): the lists of
\* tuples the call can return under a plan.
SearchEmbedding(table, plan, col, queryEmbedding, k) ==
    { [ j \in 1..Len(rows) |-> Projected(rows[j], col, ParseVector(queryEmbedding)) ] :
        rows \in OrderedLimited(Scanned(table, col, plan), col,
                                ParseVector(queryEmbedding), SearchLimit(k)) }

\* Bound on the number of rows of the table of the search runs.
MaxStoreRows == 11

\* clientSupabase.rpc("search_embedding_...", { query_embedding, match_count });
\* results keeps what the last two calls returned.
SearchReturns ==
    /\ pc = "searching"
    /\ \E res \in SearchEmbedding(store, query.plan, query.column, query.embedding,
                                   matchCount) :
          results' = IF Len(results) < 2 THEN Append(results, res)
                     ELSE << results[2], res >>
    /\ UNCHANGED << env, maxRows, run, columns, file, storeVars, pc, singleVars,
                    errorLog, infoLog,
                    batchVars, query, matchCount >>

\* The j-th row of a table filled by earlier runs. Rows 2 and 3 are at the
\* same distance from the query << 1, 0 >>; row 4 has no Mistral vector.
CatalogRow(j) ==
    [ c \in SchemaTyped |->
        IF c = "id" THEN j
        ELSE IF c = "created_at" THEN j
        ELSE IF c = "name" THEN Repeat("c", j)
        ELSE IF c = "hex" THEN << "0", "0", "f", "f", "0", "0" >>
        ELSE IF c = "is_good_name" THEN j % 2 = 0
        ELSE IF c = "embedding_openai_1536"
             THEN (IF j = 3 THEN << DimOpenai, 2, 1 >> ELSE << DimOpenai, j, 0 >>)
        ELSE (IF j = 4 THEN Null ELSE << DimMistral, j, 0 >>) ]

SampleQueries ==
    { [ column |-> "embedding_openai_1536",
        embedding |-> JSONstringify(<< DimOpenai, 1, 0 >>) ],
      [ column |-> "embedding_openai_1536",
        embedding |-> JSONstringify(<< DimOpenai, 1, 1 >>) ],
      [ column |-> "embedding_mistral_1024",
        embedding |-> JSONstringify(<< DimMistral, 1, 0 >>) ] }

InitSearch ==
    /\ columns = SchemaTyped
    /\ store \in { { CatalogRow(j) : j \in 1..n } : n \in 0..MaxStoreRows }
    /\ shadow = store
    /\ nextId = Cardinality(store) + 1
    /\ clock = Cardinality(store) + 1
    /\ file = << Header >>
    /\ InitScript
    /\ pc = "searching"
    /\ cycles = << >>
    /\ query \in { [ column |-> q.column, embedding |-> q.embedding, plan |-> p ] :
                     q \in SampleQueries, p \in Plans(store, "embedding_openai_1536")
                                                \cup Plans(store, "embedding_mistral_1024") }
    /\ query.plan \in Plans(store, query.column)
    /\ matchCount \in { Omitted, 1, 2 }

NextSearch == SearchReturns

SpecSearch == InitSearch /\ [][NextSearch]_vars

\* The tuple was made from a row that has no vector in the searched column.
NoDistance(t) == \E r \in store : r["name"] = t.name /\ r[query.column] = Null

\* The tuples come in non-decreasing distance, those without one last.
Ascending(res) ==
    \A j, k \in 1..Len(res) :
        j < k => \/ NoDistance(res[k])
                 \/ (~NoDistance(res[j]) /\ res[j].distance <= res[k].distance)

\* C6: every search returns its rows in non-decreasing order of distance,
\* and a repeated search of the same table with the same query returns
\* the same rows in the same order.
C6_SortedAndStable ==
    /\ \A s \in 1..Len(results) : Ascending(results[s])
    /\ \A s, t \in 1..Len(results) : results[s] = results[t]

\* C7: a search returns at most match_count tuples, each the name, hex,
\* is_good_name and distance of a row of the table; a search that leaves
\* match_count out returns at most 10 and what the search with
\* match_count = 10 can return.
C7_AtMostKRowsOfStore ==
    \A s \in 1..Len(results) :
        /\ Len(results[s]) <= (IF matchCount = Omitted THEN DefaultMatchCount
                               ELSE matchCount)
        /\ matchCount = Omitted =>
              results[s] \in SearchEmbedding(store, query.plan, query.column,
                                             query.embedding, DefaultMatchCount)
        /\ \A j \in 1..Len(results[s]) :
              /\ DOMAIN results[s][j] = { "name", "hex", "is_good_name", "distance" }
              /\ \E r \in store :
                    /\ r["name"] = results[s][j].name
                    /\ r["hex"] = results[s][j].hex
                    /\ r["is_good_name"] = results[s][j].is_good_name
                    /\ r[query.column] # Null =>
                          results[s][j].distance
                              = Distance(r[query.column], ParseVector(query.embedding))

\* C7 witness: match_count was left out, the table holds more than ten
\* rows, and the search returned ten.
C7_Witness ==
    /\ matchCount = Omitted
    /\ Cardinality(store) > DefaultMatchCount
    /\ Len(results) >= 1
    /\ Len(results[1]) = DefaultMatchCount


(***************************************************************************)
(* testQuery: embed the query text, call the search function               *)
(***************************************************************************)

\* The text testQuery embeds.
QueryText == << "h", "o", "l", "y" >>

\* testQuery up to its first await: the request to mistral-embed.
QueryStart ==
    /\ pc = "idle"
    /\ inputs' = << QueryText >>
    /\ batchCalls' = Append(batchCalls, inputs')
    /\ pc' = "embedding-query"
    /\ UNCHANGED << env, maxRows, run, columns, file, storeVars, singleVars, errorLog, infoLog,
                    startRow, stopRow, response, updates, batchWrites, cycles,
                    shadow, searchVars >>

\* getEmbeddingMistral returns. mistralUpdate[0].embedding_mistral_1024 on
\* an empty list raises a TypeError, which nothing in testQuery catches;
\* otherwise the search function is called with the serialized vector.
QueryEmbeddingArrives(resp) ==
    /\ pc = "embedding-query"
    /\ response' = resp
    /\ updates' = getEmbeddingMistral(inputs, resp)
    /\ errorLog' = IF ~resp.hasData \/ Len(resp.data) = 0 THEN errorLog + 1
                   ELSE errorLog
    /\ IF Len(updates') = 0
       THEN pc' = "crashed" /\ query' = query
       ELSE /\ pc' = "rpc"
            /\ query' = [ query EXCEPT !.embedding = updates'[1].embedding_mistral_1024 ]
    /\ UNCHANGED << env, maxRows, run, columns, file, storeVars, singleVars, infoLog, startRow,
                    stopRow, inputs, batchCalls, batchWrites, cycles, shadow,
                    matchCount, results >>

\* The request to mistral-embed rejects: testQuery rejects with it.
QueryEmbeddingFails ==
    /\ pc = "embedding-query"
    /\ pc' = "crashed"
    /\ UNCHANGED << env, maxRows, run, columns, file, storeVars, singleVars, errorLog, infoLog,
                    batchVars, searchVars >>

\* The error field of the rpc result: the statement was cancelled by the
\* statement timeout, or the call carried no query_embedding or one of the
\* wrong width.
RpcError(intime) ==
    IF ~intime THEN TRUE
    ELSE IF query.embedding = Undefined THEN TRUE
    ELSE VecDim(ParseVector(query.embedding)) # ColumnDim(query.column)

\* clientSupabase.rpc resolves: testQuery logs the error, or, when logging
\* is on, the matches and the durations; it returns nothing.
RpcReturns(intime) ==
    /\ pc = "rpc"
    /\ \/ /\ RpcError(intime)
          /\ errorLog' = errorLog + 1
          /\ UNCHANGED << results, infoLog >>
       \/ /\ ~RpcError(intime)
          /\ \E res \in SearchEmbedding(store, query.plan, query.column,
                                         query.embedding, matchCount) :
                results' = Append(results, res)
          /\ infoLog' = IF query.logging THEN Append(infoLog, "matches") ELSE infoLog
          /\ errorLog' = errorLog
    /\ pc' = "done"
    /\ UNCHANGED << env, maxRows, run, columns, file, storeVars, singleVars, batchVars, query,
                    matchCount >>

\* Bound on the number of rows of the table of the query runs.
MaxQueryRows == 2

InitQuery ==
    /\ columns = SchemaTyped
    /\ store \in { { CatalogRow(j) : j \in 1..n } : n \in 0..MaxQueryRows }
    /\ shadow = store
    /\ nextId = Cardinality(store) + 1
    /\ clock = Cardinality(store) + 1
    /\ file = << Header >>
    /\ InitScript
    /\ pc = "idle"
    /\ cycles = << >>
    /\ query \in { [ column |-> "embedding_mistral_1024", embedding |-> Undefined,
                      plan |-> p, logging |-> l ] :
                     p \in Plans(store, "embedding_mistral_1024"), l \in BOOLEAN }
    /\ matchCount = DefaultMatchCount

NextQuery ==
    \/ QueryStart
    \/ \E resp \in ProviderResponses(inputs) : QueryEmbeddingArrives(resp)
    \/ QueryEmbeddingFails
    \/ \E intime \in BOOLEAN : RpcReturns(intime)

SpecQuery == InitQuery /\ [][NextQuery]_vars

\* testQuery showed its caller the matches.
MatchesReported == \E k \in 1..Len(infoLog) : infoLog[k] = "matches"

\* testQuery showed its caller an error.
ErrorReported == errorLog > 0

\* C12: testQuery never throws out of the call, and when it has ended it
\* has reported either the ranked matches or an error, never both and
\* never neither.
C12_ListOrClassifiedError ==
    /\ pc # "crashed"
    /\ pc = "done" => /\ MatchesReported \/ ErrorReported
                      /\ ~(MatchesReported /\ ErrorReported)


(***************************************************************************)
(* addMistral.ts: runFullScript, one updateCycle after the other           *)
(***************************************************************************)

\* for (let i = startRow; i < 35000; i += stepSize)
RowLimit == 35000

\* Bound on the number of cycles of a run that the model follows.
MaxCycles == 2

Min(a, b) == IF a <= b THEN a ELSE b

\* The number of iterations of the loop of runFullScript(stepSize, start).
LoopCount(stepSize, start) ==
    IF start >= RowLimit THEN 0
    ELSE (RowLimit - start + stepSize - 1) \div stepSize

\* The ranges runFullScript(stepSize, start) hands to updateCycle, in
\* order: (i, i + stepSize) for i = start, start + stepSize, ...; the model
\* follows the first MaxCycles of them.
LoopRanges(stepSize, start) ==
    [ k \in 1..Min(LoopCount(stepSize, start), MaxCycles) |->
        << start + (k - 1) * stepSize, start + k * stepSize >> ]

\* The arguments of the sample runs.
StepSizes == { 1, 2 }
StartRows == { 0, 1, RowLimit - 1, RowLimit }

\* The answers of the provider in the sample runs: every input answered
\* in order, or no data at all.
RunResponses(names) ==
    { FaithfulResponse(names), [ hasData |-> FALSE, data |-> << >> ] }

InitRun ==
    /\ columns = SchemaTyped
    /\ store \in InitialStores(columns)
    /\ shadow = store
    /\ nextId = 2
    /\ clock = 1
    /\ file \in ResumeFiles
    /\ InitScript
    /\ pc = "idle"
    /\ cycles \in { LoopRanges(stepSize, start) :
                      stepSize \in StepSizes, start \in StartRows }
    /\ query = Undefined
    /\ matchCount = Omitted

NextRun ==
    \/ CycleStart
    \/ \E resp \in RunResponses(inputs) : MistralResponds(resp)
    \/ MistralFails
    \/ \E available \in BOOLEAN : BatchSaveReturns(available)

SpecRun == InitRun /\ [][NextRun]_vars

\* C13: the run is never aborted by the failure of a batch while ranges
\* remain to be processed.
C13_BatchContinueOnError == ~(pc = "crashed" /\ cycles # << >>)


(***************************************************************************)
(* script.ts: a run that is interrupted and started again                  *)
(***************************************************************************)

\* The table after runFullScript over rows[k..] when every embedding
\* request and every write request is answered.
RECURSIVE RunFullScriptTable(_, _, _, _, _, _)
RunFullScriptTable(table, cols, rows, k, id, now) ==
    IF k > Len(rows) THEN table
    ELSE LET raw == readColorRow(rows[k])
             p == PreppedColor(raw, OpenaiEmbed(raw.name))
         IN  IF ~PassesValidation(raw)
             THEN RunFullScriptTable(table, cols, rows, k + 1, id, now)
             ELSE RunFullScriptTable(
                      Upsert(table, cols, << p >>, FALSE, id, now, TRUE), cols, rows,
                      k + 1, UpsertNextId(cols, << p >>, FALSE, id, TRUE), now + 1)

\* Bound on the number of times a run is interrupted.
MaxInterrupts == 1

\* The number of runs started so far.
RunsStarted == Cardinality({ k \in 1..Len(infoLog) : infoLog[k] = "processing" })

\* The process is killed while a run is under way: the script's locals are
\* lost, the table stays. A write request in flight has been applied by
\* the store or has not.
Interrupt(applied) ==
    /\ pc \in { "loop", "embedding", "saving", "delay" }
    /\ RunsStarted <= MaxInterrupts
    /\ IF pc = "saving" /\ applied
       THEN /\ store' = Upsert(store, columns, << prepped >>, FALSE, nextId, clock, TRUE)
            /\ nextId' = UpsertNextId(columns, << prepped >>, FALSE, nextId, TRUE)
            /\ clock' = clock + 1
       ELSE UNCHANGED storeVars
    /\ pc' = "idle"
    /\ colorRows' = << >>
    /\ i' = 0
    /\ rawColor' = Undefined
    /\ prepped' = Undefined
    /\ pauses' = << >>
    /\ UNCHANGED << env, maxRows, run, columns, file, paused, embCalls, writeCalls, rowResult,
                    errorLog, infoLog, batchVars, searchVars >>

\* The store answers the write request in flight.
SaveArrives == SaveReturns(TRUE)

InterruptFiles ==
    { << Header >> \o rows :
        rows \in SeqsUpTo({ RowRed, RowRedGreen, RowNoName }, MaxBatchRows) }

InitInterrupt ==
    /\ InitStore
    /\ file \in InterruptFiles
    /\ InitScript
    /\ pc = "idle"
    /\ cycles = << >>
    /\ query = Undefined
    /\ matchCount = Omitted

NextInterrupt ==
    \/ RunStart(Omitted)
    \/ RunCompletes
    \/ RowRejected
    \/ RowAccepted
    \/ EmbeddingArrives
    \/ SaveArrives
    \/ DelayElapses
    \/ \E applied \in BOOLEAN : Interrupt(applied)

SpecInterrupt == InitInterrupt /\ [][NextInterrupt]_vars

\* Row r of the table is the complete record of a valid row of the file.
CompleteRecord(r) ==
    \E k \in 1..Len(ContentRows) :
        LET raw == readColorRow(ContentRows[k])
        IN  IF ~PassesValidation(raw) THEN FALSE
            ELSE /\ r["name"] = raw.name
                 /\ r["hex"] = ReplaceFirst(raw.hex, "#")
                 /\ r["is_good_name"] = raw.is_good_name
                 /\ r["embedding_small"] = OpenaiEmbed(raw.name)

\* The table an uninterrupted run leaves, from the table the run found.
UninterruptedTable == RunFullScriptTable(shadow, columns, ContentRows, 1, 2, 1)

\* C14: at every point of a run that may be interrupted, every row of the
\* table is a row the run found there or the complete record of a row of
\* the file; and when a run started after the interruption has completed,
\* the table holds the rows an uninterrupted run leaves, none twice.
C14_InterruptThenRerun ==
    /\ \A r \in store : IF r \in shadow THEN TRUE ELSE CompleteRecord(r)
    /\ pc = "done" =>
          /\ Content(store) = Content(UninterruptedTable)
          /\ Cardinality(store) = Cardinality(UninterruptedTable)

\* C14 witness: a run was killed after an embedding request and before the
\* write that follows it, a second run has completed and has written.
C14_Witness ==
    /\ pc = "done"
    /\ RunsStarted = 2
    /\ Len(embCalls) = Len(writeCalls) + 1
    /\ store # shadow


(***************************************************************************)
(* Both scripts against one table                                          *)
(***************************************************************************)

BothFiles ==
    { << Header >> \o rows :
        rows \in SeqsUpTo({ RowRed, RowRedGreen, RowNoName }, MaxBatchRows) }

InitBoth ==
    /\ InitStore
    /\ file \in BothFiles
    /\ InitScript
    /\ pc = "idle"
    /\ cycles \in { << r >> : r \in Ranges }
    /\ query = Undefined
    /\ matchCount = Omitted

\* script.ts and addMistral.ts, each started when the other is not running.
NextBoth == Next \/ NextRun

SpecBoth == InitBoth /\ [][NextBoth]_vars

\* C15: no step changes the created_at of a row: a row that carries a name
\* before a step and a row that carries it after the step have the same
\* created_at.
C15_CreatedAtKept ==
    [][\A r \in store : \A t \in store' :
          t["name"] = r["name"] => t["created_at"] = r["created_at"]]_vars

\* C15 witness: the row that was in the table before the run has been
\* written again and still carries its first created_at.
C15_Witness ==
    /\ clock > 1
    /\ \E r \in store : /\ r["name"] = Red
                         /\ r["created_at"] = 0
                         /\ r \notin shadow


(***************************************************************************)
(* Start-up: the client modules read their credentials                     *)
(***************************************************************************)

\* !value for a string | undefined: true for undefined and for "".
Falsy(v) == IF v = Undefined THEN TRUE ELSE Len(v) = 0

\* clientOpenai.ts: if (!apiKey) throw.
clientOpenaiThrows(e) == Falsy(e.OPENAI_API_KEY)

\* A plausible slip: && in place of ||, so one credential is enough.
clientSupabaseThrowsBoth(e) ==
    IF Falsy(e.SUPABASE_URL) THEN Falsy(e.SUPABASE_SERVICE_ROLE_KEY) ELSE FALSE

\* clientSupabase.ts: if (!supabaseUrl || !supabaseKey) throw.
clientSupabaseThrows(e) ==
    IF Falsy(e.SUPABASE_URL) THEN TRUE ELSE Falsy(e.SUPABASE_SERVICE_ROLE_KEY)

\* script.ts is loaded: its imports evaluate clientOpenai.ts and
\* clientSupabase.ts before any statement of the script runs. A throw in
\* either ends the process, and the runtime prints the error.
LoadClients ==
    /\ pc = "start"
    /\ pc' = IF clientOpenaiThrows(env) THEN "fatal"
             ELSE IF clientSupabaseThrows(env) THEN "fatal"
             ELSE "idle"
    /\ errorLog' = IF pc' = "fatal" THEN errorLog + 1 ELSE errorLog
    /\ UNCHANGED << env, maxRows, run, columns, file, storeVars, singleVars,
                    infoLog, batchVars,
                    searchVars >>

\* The values a variable of the environment may have: not set, empty, set.
Settings(v) == { Undefined, << >>, v }

Envs ==
    { [ OPENAI_API_KEY |-> a, SUPABASE_URL |-> b, SUPABASE_SERVICE_ROLE_KEY |-> c ] :
        a \in Settings(ConfiguredEnv.OPENAI_API_KEY),
        b \in Settings(ConfiguredEnv.SUPABASE_URL),
        c \in Settings(ConfiguredEnv.SUPABASE_SERVICE_ROLE_KEY) }

InitStartup ==
    /\ env \in Envs
    /\ InitStore
    /\ file \in BothFiles
    /\ InitLocals
    /\ run = NoRun
    /\ pc = "start"
    /\ cycles = << >>
    /\ query = Undefined
    /\ matchCount = Omitted

NextStartup == LoadClients \/ Next

SpecStartup == InitStartup /\ [][NextStartup]_vars

\* One of the three credentials is not set or is empty.
CredentialMissing ==
    \E k \in DOMAIN env : env[k] \in { Undefined, << >> }

\* C18: with a credential missing the script never gets past the loading
\* of its clients: it is about to load them or has ended with the fatal
\* error, and no row has been read, no request issued, nothing written.
C18_FatalBeforeProcessing ==
    CredentialMissing =>
        /\ pc \in { "start", "fatal" }
        /\ pc = "fatal" => errorLog = 1
        /\ colorRows = << >>
        /\ embCalls = << >>
        /\ writeCalls = << >>
        /\ infoLog = << >>
        /\ store = shadow

\* C18 witness: only SUPABASE_SERVICE_ROLE_KEY is missing and the script
\* has ended with the fatal error.
C18_Witness ==
    /\ pc = "fatal"
    /\ env.OPENAI_API_KEY = ConfiguredEnv.OPENAI_API_KEY
    /\ env.SUPABASE_URL = ConfiguredEnv.SUPABASE_URL
    /\ env.SUPABASE_SERVICE_ROLE_KEY = Undefined


(***************************************************************************)
(* script.ts: the pauses of a run of ten rows and more                     *)
(***************************************************************************)

\* Files whose tenth content row ends a group of PauseEvery rows: rows
\* without a name up to the eighth, then three rows with or without one.
PacedFiles ==
    { << Header >> \o [ k \in 1..(PauseEvery - 2) |-> RowNoName ] \o rows :
        rows \in [ 1..3 -> { RowRed, RowNoName } ] }

InitPaced ==
    /\ InitStore
    /\ file \in PacedFiles
    /\ InitScript
    /\ pc = "idle"
    /\ cycles = << >>
    /\ query = Undefined
    /\ matchCount = Omitted

SpecPaced == InitPaced /\ [][Next]_vars

\* A delay of row r has elapsed, of ms milliseconds.
Paused(r, ms) == \E p \in 1..Len(paused) : paused[p].row = r /\ paused[p].ms = ms

\* C20: a delay elapses between every two consecutive embedding requests,
\* and the longer delay has elapsed after every tenth row that the loop
\* has left behind, whatever the outcome of the rows.
C20_PausesWhateverOutcome ==
    /\ \A j \in 1..(Len(embCalls) - 1) :
          \E p \in 1..Len(paused) :
              embCalls[j] <= paused[p].row /\ paused[p].row < embCalls[j + 1]
    /\ \A k \in 0..(i - 1) : (k + 1) % PauseEvery = 0 => Paused(k, LongPause)

(***************************************************************************)
(* A write that the store does not accept                                  *)
(***************************************************************************)

\* This step is the return of saveColorEntry from a write that failed.
RowWriteFails ==
    /\ pc = "saving"
    /\ Len(rowResult') = Len(rowResult) + 1
    /\ Last(rowResult') = "write"

\* C21: a write that the store rejects is a failed write; the step in
\* which a row's write fails logs one error, leaves the table as it was and
\* issues no other write; the loop then moves to the next row (the index
\* advances when the row's pauses are over); over the run no row has its
\* write issued twice; and a batch write that fails logs one error, leaves
\* the table as it was, is not sent again and ends the cycle.
C21_FailedWriteNotRetried ==
    [][/\ (pc = "saving" /\ UpsertRejected(columns, << prepped >>, FALSE))
             => RowWriteFails
       /\ RowWriteFails =>
             /\ errorLog' = errorLog + 1
             /\ store' = store
             /\ writeCalls' = writeCalls
             /\ i' = i
             /\ pc' = "delay"
       /\ (pc = "delay" /\ pc' # "delay") => (pc' = "loop" /\ i' = i + 1)
       /\ StrictlyIncreasing(writeCalls')
       /\ (pc = "upserting" /\ UpsertRejected(columns, updates, TRUE))
             => errorLog' = errorLog + 1
       /\ (pc = "upserting" /\ errorLog' > errorLog) =>
             /\ store' = store
             /\ batchWrites' = batchWrites
             /\ pc' = "idle"]_vars

\* C21 witness: the write of the first row failed, the table is as the run
\* found it, and the second row has been written.
C21_Witness ==
    /\ Len(rowResult) = 2
    /\ rowResult[1] = "write"
    /\ rowResult[2] = "saved"
    /\ writeCalls = << 0, 1 >>
    /\ errorLog = 1
    /\ Cardinality(store) = Cardinality(shadow) + 1

(***************************************************************************)
(* One column and one search function per embedding backend                *)
(***************************************************************************)

\* The column of public.colors that holds the vectors of a given width:
\* those of text-embedding-3-small, those of mistral-embed.
BackendColumn(dim) ==
    IF dim = DimOpenai THEN "embedding_openai_1536" ELSE "embedding_mistral_1024"

\* Every vector a payload object carries sits under the column of the
\* backend that produced it.
KeyedToBackend(p) ==
    \A c \in DOMAIN p :
        IF c \in { "name", "hex", "is_good_name" } THEN TRUE
        ELSE IF p[c] = Undefined THEN TRUE
        ELSE c = BackendColumn(VecDim(ParseVector(p[c])))

\* The vector handed to the search function has the width of the column
\* that the function searches.
QueryKeyedToBackend ==
    pc = "rpc" =>
        IF query.embedding = Undefined THEN TRUE
        ELSE query.column = BackendColumn(VecDim(ParseVector(query.embedding)))

\* C22: every write request names only columns of the colors table, and
\* every vector it carries sits under the column of its own backend:
\* OpenAI vectors under embedding_openai_1536, Mistral vectors under
\* embedding_mistral_1024.
C22_OneBackendPerColumn ==
    /\ pc = "saving" =>
          /\ ObjectColumns(prepped) \subseteq SchemaTyped
          /\ KeyedToBackend(prepped)
    /\ pc = "upserting" =>
          \A k \in 1..Len(updates) :
              /\ DOMAIN updates[k] \subseteq SchemaTyped
              /\ KeyedToBackend(updates[k])

(***************************************************************************)
(* script.ts: runFullScript(maxRows), every request answered in the end    *)
(***************************************************************************)

\* Bound on the maxRows argument of the sample runs.
MaxRowsArg == 2

\* The maxRows arguments of the sample runs: left out, or 0, 1, ...
RowsArgs == { Omitted } \cup 0..MaxRowsArg

\* Rows that are saved, rows that prepColorEntry rejects, rows on which
\* validRawColor throws.
RowsFiles ==
    { << Header >> \o rows :
        rows \in SeqsUpTo({ RowRed, RowNoName, RowNameOnly }, MaxBatchRows) }

InitRows ==
    /\ columns \in Schemas
    /\ store = { }
    /\ shadow = store
    /\ nextId = 1
    /\ clock = 1
    /\ file \in RowsFiles
    /\ InitScript
    /\ pc = "idle"
    /\ cycles = << >>
    /\ query = Undefined
    /\ matchCount = Omitted

NextRows ==
    \/ \E max \in RowsArgs : RunStart(max)
    \/ RunCompletes
    \/ RowRejected
    \/ RowAccepted
    \/ EmbeddingArrives
    \/ EmbeddingFails
    \/ \E available \in BOOLEAN : SaveReturns(available)
    \/ DelayElapses

SpecRows == InitRows /\ [][NextRows]_vars

\* Every awaited call returns or throws in the end, every delay elapses.
SpecRowsFair == SpecRows /\ WF_vars(NextRows)

\* The number of final log lines written so far.
Summaries == Cardinality({ k \in 1..Len(infoLog) : infoLog[k] = "completed" })

\* C23: a run that has started ends; between two rows the rows attempted
\* so far are those before the loop index, each with one outcome; when the
\* run has ended every selected row has its one outcome and the final log
\* line was written once, and it is written nowhere before; and nothing
\* happens after the end.
C23_EveryRowOnceThenSummary ==
    /\ (pc = "loop") ~> (pc = "done")
    /\ [](pc \in { "loop", "done" } => Len(rowResult) = i)
    /\ [](StrictlyIncreasing(embCalls) /\ StrictlyIncreasing(writeCalls))
    /\ [](pc = "done" => (Len(rowResult) = Len(colorRows) /\ Summaries = 1))
    /\ [](pc # "done" => Summaries = 0)
    /\ [][pc # "done"]_vars

\* C23 witness: a run over two rows has ended, both rows failed, each at
\* another call, and the final log line is there.
C23_Witness ==
    /\ pc = "done"
    /\ Len(colorRows) = 2
    /\ rowResult[1] # "saved"
    /\ rowResult[2] # "saved"
    /\ rowResult[1] # rowResult[2]
    /\ Summaries = 1

(***************************************************************************)
(* addMistral.ts: runFullScript over a file that reaches the loop's limit  *)
(***************************************************************************)

\* The ranges the loop of runFullScript hands to updateCycle from loop
\* index k on: for (let i = startRow; i < 35000; i += stepSize)
\* updateCycle(i, i + stepSize).
RECURSIVE runFullScriptFrom(_, _)
runFullScriptFrom(k, stepSize) ==
    IF k < RowLimit
    THEN << << k, k + stepSize >> >> \o runFullScriptFrom(k + stepSize, stepSize)
    ELSE << >>

\* Every range runFullScript(stepSize, start) hands to updateCycle, in
\* order.
runFullScriptRanges(stepSize, start) == runFullScriptFrom(start, stepSize)

\* The last start row of the sample runs, and their first.
LastStart == RowLimit - 1
FirstStart == RowLimit - 3

\* Bound on the number of content rows past the loop's limit.
MaxBeyond == 2

\* The names of the rows from FirstStart on, all different.
TailNames == << << "a" >>, << "b" >>, << "c" >>, << "d" >>, << "e" >>, << "f" >>, << "g" >> >>

\* A source file of n content rows: up to FirstStart rows that hold the
\* name z and nothing else, then rows with names of their own.
LongFile(n) ==
    [ k \in 1..(n + 1) |->
        IF k = 1 THEN Header
        ELSE IF k - 2 < FirstStart THEN << "z" >>
        ELSE Line(TailNames[k - 1 - FirstStart], HexRed, << >>) ]

LongFiles == { LongFile(n) : n \in (RowLimit - 2)..(RowLimit + MaxBeyond) }

InitLong ==
    /\ columns = SchemaTyped
    /\ store \in InitialStores(columns)
    /\ shadow = store
    /\ nextId = 2
    /\ clock = 1
    /\ file \in LongFiles
    /\ InitScript
    /\ pc = "idle"
    /\ cycles \in { runFullScriptRanges(stepSize, start) :
                      stepSize \in 1..3, start \in FirstStart..LastStart }
    /\ query = Undefined
    /\ matchCount = Omitted

\* The provider answers every request.
NextLong ==
    \/ CycleStart
    \/ \E resp \in RunResponses(inputs) : MistralResponds(resp)
    \/ \E available \in BOOLEAN : BatchSaveReturns(available)

SpecLong == InitLong /\ [][NextLong]_vars

\* The run is over: no range is left and no cycle is under way.
RunEnded == pc = "idle" /\ cycles = << >>

\* The number of times a name was sent to the provider.
TimesSubmitted(name) ==
    Cardinality({ << k, j >> \in (1..Len(batchCalls)) \X (1..MaxBeyond + 3) :
                    j <= Len(batchCalls[k]) /\ batchCalls[k][j] = name })

\* C24: when the run is over, every content row from row LastStart on
\* (every run starts at or before that row) has been sent to the provider
\* once, and no row was sent twice.
C24_EveryRowInOneCycle ==
    /\ \A k \in 1..Len(TailNames) : TimesSubmitted(TailNames[k]) <= 1
    /\ RunEnded =>
          \A r \in LastStart..(Len(file) - 2) :
              TimesSubmitted(Split(file[r + 2], ",")[1]) = 1

(***************************************************************************)
(* What a batch write leaves alone                                         *)
(***************************************************************************)

\* The name is proposed by one of the updates of the batch in flight.
InBatch(name) == \E k \in 1..Len(updates) : updates[k].name = name

\* C25: the step in which saveEmbeddingsToDB's upsert resolves leaves every
\* row whose name is not in the batch as it was, and changes nothing but
\* embedding_mistral_1024 in a row whose name is in the batch: hex,
\* is_good_name, embedding_openai_1536, id and created_at stay.
C25_BatchWriteFrame ==
    [][pc = "upserting" =>
          \A r \in store :
              IF InBatch(r["name"])
              THEN \E t \in store' :
                      \A c \in columns \ { "embedding_mistral_1024" } : t[c] = r[c]
              ELSE r \in store']_vars

\* C25 witness: the row the run found in the table has got its Mistral
\* vector and still carries its hex, is_good_name, OpenAI vector and id.
C25_Witness ==
    /\ columns = SchemaTyped
    /\ batchWrites # << >>
    /\ \E r \in store :
          /\ r["name"] = Red
          /\ r["embedding_mistral_1024"] = MistralEmbed(Red)
          /\ r["hex"] = << "1", "2", "3", "4", "5", "6" >>
          /\ r["embedding_openai_1536"] = << DimOpenai, 2, 1 >>
          /\ r["id"] = 1
          /\ r["is_good_name"] = FALSE

(***************************************************************************)
(* What getEmbeddingMistral returns                                        *)
(***************************************************************************)

\* C26: every update getEmbeddingMistral has returned carries the name of
\* one of the inputs and a serialized embedding.
C26_UpdatesNamedAndFilled ==
    pc = "upserting" =>
        \A k \in 1..Len(updates) :
            /\ IsInput(updates[k].name)
            /\ updates[k].embedding_mistral_1024 # Undefined

(***************************************************************************)
(* What getColorRows returns                                               *)
(***************************************************************************)

\* The rows the claim expects from getColorRows(path, true, max): all the
\* content rows when max is left out, the first min(max, n) otherwise.
FirstRows(max) ==
    IF max = Omitted THEN ContentRows
    ELSE SubSeq(ContentRows, 1, Min(max, Len(ContentRows)))

\* C27: the rows runFullScript(maxRows) got from getColorRows are the
\* content rows of the file in source order, without the header line: all
\* of them when maxRows was left out, the first min(maxRows, n) of them
\* when it was supplied.
C27_FirstRowsInOrder ==
    pc # "idle" => colorRows = FirstRows(maxRows)

(***************************************************************************)
(* validRawColor on short rows                                             *)
(***************************************************************************)

\* The number of comma-separated fields of a source line.
FieldCount(rowText) == Len(Split(rowText, ","))

\* C28: for every row handled so far validRawColor returned (it did not
\* throw), and it returned false for a row of fewer than three fields,
\* the empty line included.
C28_ValidationNeverThrows ==
    \A k \in 1..Len(rowResult) :
        /\ ~validRawColorThrows(readColorRow(colorRows[k]))
        /\ FieldCount(colorRows[k]) < 3 => ~validRawColor(readColorRow(colorRows[k]))

(***************************************************************************)
(* updateCycle on a range at or past the end of the file                   *)
(***************************************************************************)

\* What updateCycle returns once it has ended: colorNames.length, which is
\* 0 on the early return.
updateCycleReturns == Len(inputs)

\* The names of the content rows from row a to the end of the file.
NamesFrom(a) ==
    [ k \in 1..(Len(ContentRows) - a) |-> Split(ContentRows[a + k], ",")[1] ]

\* C29: the step that starts updateCycle(a, b) with a at or beyond the end
\* of the content rows ends the cycle at once: no request to the provider,
\* no write, the table as it was, 0 returned; with a before the end and b
\* beyond it, the names sent to the provider are those of the rows from a
\* to the end of the file.
C29_EmptyAndOverlongRanges ==
    [][(pc = "idle" /\ cycles # << >>) =>
          IF Head(cycles)[1] >= Len(ContentRows)
          THEN /\ pc' = "idle"
               /\ batchCalls' = batchCalls
               /\ batchWrites' = batchWrites
               /\ store' = store
               /\ updateCycleReturns' = 0
          ELSE Head(cycles)[2] > Len(ContentRows) =>
                  /\ inputs' = NamesFrom(Head(cycles)[1])
                  /\ batchCalls' = Append(batchCalls, inputs')
                  /\ pc' = "mistral"]_vars

\* C29 witness: a cycle that started at the end of a file of one row or
\* more has ended with no request made and nothing written.
C29_Witness ==
    /\ pc = "idle"
    /\ cycles = << >>
    /\ Len(ContentRows) >= 1
    /\ startRow >= Len(ContentRows)
    /\ stopRow > startRow
    /\ batchCalls = << >>
    /\ batchWrites = << >>
    /\ store = shadow

(***************************************************************************)
(* addMistral.ts: the number of cycles of runFullScript                    *)
(***************************************************************************)

\* The arguments of the sample runs: small steps from start rows near the
\* limit of the loop, large steps from the first rows.
LoopArgs ==
    { [ stepSize |-> s, startRow |-> a ] :
        s \in 1..3, a \in FirstStart..(RowLimit + 1) } \cup
    { [ stepSize |-> s, startRow |-> a ] :
        s \in { RowLimit \div 2, RowLimit }, a \in { 0, 1 } }

InitLoop ==
    /\ columns = SchemaTyped
    /\ store \in InitialStores(columns)
    /\ shadow = store
    /\ nextId = 2
    /\ clock = 1
    /\ file \in ResumeFiles
    /\ env = ConfiguredEnv
    /\ InitLocals
    /\ run \in LoopArgs
    /\ pc = "idle"
    /\ cycles = runFullScriptRanges(run.stepSize, run.startRow)
    /\ query = Undefined
    /\ matchCount = Omitted

SpecLoop == InitLoop /\ [][NextRun]_vars

\* The number of update cycles started so far.
CyclesStarted == Len(runFullScriptRanges(run.stepSize, run.startRow)) - Len(cycles)

\* ceil((35000 - startRow) / stepSize), zero when startRow >= 35000.
ExpectedCycles ==
    IF run.startRow >= RowLimit THEN 0
    ELSE (RowLimit - run.startRow + run.stepSize - 1) \div run.stepSize

\* The run has ended: no range is left and no cycle is under way, or a
\* cycle has thrown.
RunOver == pc = "crashed" \/ RunEnded

\* C30: when runFullScript(stepSize, startRow) has ended it has started
\* ceil((35000 - startRow) / stepSize) update cycles (none when startRow
\* >= 35000), whatever the length of the file, and it never starts more.
C30_CycleCount ==
    /\ CyclesStarted <= ExpectedCycles
    /\ RunOver => CyclesStarted = ExpectedCycles

====
